---------------------------- MODULE Spec2Model ----------------------------
(***************************************************************************)
(* A model of utils/get_ibc_channels.py: the cursor-paginated channel      *)
(* fetch (paginate_channels), the per-channel resolution chain             *)
(* (map_channels), the chain-identity map (build_chain_id_symbol_map) and  *)
(* the aggregation with its conflict resolution (aggregate_all).           *)
(*                                                                         *)
(* Encoding of Python values:                                              *)
(*   - a str is a TLA+ string; None in a place that holds a str is Null;   *)
(*   - an Optional[int] is a sequence of at most one integer:              *)
(*     <<>> is None, <<n>> is the integer n;                               *)
(*   - a dict is a function from its keys (strings); a key that is absent  *)
(*     is outside DOMAIN; the empty dict is <<>>;                          *)
(*   - a list is a sequence;                                               *)
(*   - an HTTP exchange is [ok |-> TRUE, body |-> <parsed JSON>] or        *)
(*     [ok |-> FALSE, error |-> <str(e) of the exception raised>].         *)
(***************************************************************************)
EXTENDS Integers, Sequences, FiniteSets, TLC

(***************************************************************************)
(* Python values                                                           *)
(***************************************************************************)
Null == "<null>"

NoNum == <<>>

Some(n) == <<n>>

EmptyDict == <<>>

\* bool(x) of an Optional[str]: None and "" are falsy.
Truthy(s) == s # Null /\ s # ""

\* d.get(k) for a str-valued key.
Get(d, k) == IF k \in DOMAIN d THEN d[k] ELSE Null

\* d.get(k) or {} for a dict-valued key.
GetDict(d, k) == IF k \in DOMAIN d THEN d[k] ELSE EmptyDict

\* d.get(k) or [] / d.get(k, []) for a list-valued key.
GetList(d, k) == IF k \in DOMAIN d THEN d[k] ELSE <<>>

\* d.get(k) for an Optional[int]-valued key.
GetNum(d, k) == IF k \in DOMAIN d THEN d[k] ELSE NoNum

\* s.startswith(p)
StartsWith(s, p) == Len(s) >= Len(p) /\ SubSeq(s, 1, Len(p)) = p

\* s.split(c, 1)[1] for a one-character separator that occurs in s.
AfterFirst(s, c) ==
    LET first == CHOOSE k \in 1..Len(s) :
                    /\ SubSeq(s, k, k) = c
                    /\ \A j \in 1..(k - 1) : SubSeq(s, j, j) # c
    IN  SubSeq(s, first + 1, Len(s))

Digits == <<"0", "1", "2", "3", "4", "5", "6", "7", "8", "9">>

IsDigit(c) == \E d \in 1..10 : Digits[d] = c

DigitVal(c) == (CHOOSE d \in 1..10 : Digits[d] = c) - 1

RECURSIVE DecimalValue(_)
DecimalValue(s) ==
    IF Len(s) = 0 THEN 0
    ELSE 10 * DecimalValue(SubSeq(s, 1, Len(s) - 1))
            + DigitVal(SubSeq(s, Len(s), Len(s)))

\* int(s) on a str of digits, letters, "-" and "+": an optional sign and
\* one or more decimal digits; anything else raises ValueError, which is
\* NoNum here (the only caller turns the exception into None).
PyInt(s) ==
    LET signed == Len(s) > 0 /\ SubSeq(s, 1, 1) \in {"-", "+"}
        body   == IF signed THEN SubSeq(s, 2, Len(s)) ELSE s
        neg    == signed /\ SubSeq(s, 1, 1) = "-"
    IN  IF Len(body) > 0 /\ \A k \in 1..Len(body) : IsDigit(SubSeq(body, k, k))
        THEN Some(IF neg THEN 0 - DecimalValue(body) ELSE DecimalValue(body))
        ELSE NoNum

(***************************************************************************)
(* parse_channel_number, normalize_state                                   *)
(***************************************************************************)
parse_channel_number(channel_id) ==
    IF ~Truthy(channel_id) THEN NoNum
    ELSE IF StartsWith(channel_id, "channel-")
         THEN PyInt(AfterFirst(channel_id, "-"))
         ELSE PyInt(channel_id)

\* The state is passed on as it came.
normalize_state_Raw(state) == IF ~Truthy(state) THEN Null ELSE state

normalize_state(state) ==
    IF ~Truthy(state) THEN Null
    ELSE IF StartsWith(state, "STATE_") THEN AfterFirst(state, "_")
    ELSE state

(***************************************************************************)
(* Configuration                                                           *)
(***************************************************************************)
\* TENDERMINT_API_URLS, in iteration order; the model keeps two of the five
\* configured endpoints (every endpoint is treated alike).
Symbols == <<"ATOM", "OSMO">>

\* The limit aggregate_all passes to map_channels, and on to paginate_channels.
Limit == 200

\* The port_filter and state_filter aggregate_all passes to map_channels.
port_filter == "transfer"

state_filter == Null

(***************************************************************************)
(* Bounds of the model                                                     *)
(***************************************************************************)
\* Pages of one channel list, and items of one page.
MaxPages == 3

MaxPageSize == 2

\* Channels the configured endpoints list in one run, all endpoints together.
MaxChannels == 2

\* Rows of one endpoint, where the aggregation is checked on its own.
MaxRows == 3

(***************************************************************************)
(* State                                                                   *)
(***************************************************************************)
VARIABLES
    pc,                 \* where aggregate_all is: "ident", "endpoint",
                        \* "fetch", "resolve", "aggregate", "done"
    ep,                 \* index in Symbols of the endpoint being processed
    chain_id_to_symbol, \* aggregate_all: the chain-identity map
    result,             \* aggregate_all: the nested mapping being built
    server,             \* the channel-list resource of the current endpoint
    next_key_b64,       \* paginate_channels: the cursor to send next
    channels,           \* paginate_channels: the items fetched so far
    sent,               \* the queries q paginate_channels has issued
    all_channels,       \* map_channels: the list paginate_channels returned
    i,                  \* map_channels: index of the next channel
    out,                \* map_channels: the records built so far
    lookups,            \* the exchanges of the last map_channels iteration
    rows,               \* aggregate_all: the records map_channels returned
    r,                  \* aggregate_all: index of the next row
    reported,           \* what get_local_chain_id returned, per endpoint
    served,             \* channels listed by the endpoints begun so far
    hopless             \* ids of the channels of the current endpoint whose
                        \* detail named no connection hop

vars == <<pc, ep, chain_id_to_symbol, result, server, next_key_b64, channels,
          sent, all_channels, i, out, lookups, rows, r, reported, served,
          hopless>>

NumEndpoints == Len(Symbols)

local_symbol == Symbols[ep]

\* d[k] = v on a dict.
Put(d, k, v) == [kk \in DOMAIN d \cup {k} |-> IF kk = k THEN v ELSE d[kk]]

RECURSIVE Str(_)
\* str(n) for n >= 0.
Str(n) == IF n < 10 THEN Digits[n + 1]
          ELSE Str(n \div 10) \o Digits[(n % 10) + 1]

(***************************************************************************)
(* The HTTP JSON client, as the code sees it                               *)
(***************************************************************************)
Ok(body) == [ok |-> TRUE, body |-> body]

\* The request raised; msg is str(e).
Failed(msg) == [ok |-> FALSE, error |-> msg]

\* The texts str(e) can be: an exception may carry no message at all.
ErrorTexts == {"", "timed out"}

(***************************************************************************)
(* The channel-list resource: a finite chain of pages                      *)
(***************************************************************************)
\* The opaque cursor a page hands out to reach the page after page j.
Cursor(j) == "a2V5" \o Str(j)

\* Item n (from 1) of a channel list; the ids of one list are distinct.
RawChannel(n, port, state) ==
    [channel_id |-> "channel-" \o Str(11 + n), port_id |-> port, state |-> state]

\* How the last page of a chain says that it is the last.
LastKinds == {"no pagination", "no next_key", "null", "empty"}

\* The body of page j of n, holding items.
PageBody(items, j, n, lastKind) ==
    LET withItems(d) == IF Len(items) = 0 /\ lastKind = "no pagination"
                        THEN d ELSE Put(d, "channels", items)
    IN  IF j < n THEN withItems([pagination |-> [next_key |-> Cursor(j)]])
        ELSE CASE lastKind = "no pagination" -> withItems(EmptyDict)
               [] lastKind = "no next_key"   -> withItems([pagination |-> [total |-> "0"]])
               [] lastKind = "null"          -> withItems([pagination |-> [next_key |-> Null]])
               [] OTHER                      -> withItems([pagination |-> [next_key |-> ""]])

\* The answer of the channel-list resource to query q: the first page when q
\* carries no cursor, the page the cursor leads to otherwise.
Respond(srv, q) ==
    IF "pagination.key" \notin DOMAIN q THEN srv[1]
    ELSE LET from == {j \in 1..(Len(srv) - 1) :
                        /\ srv[j].ok
                        /\ Get(GetDict(srv[j].body, "pagination"), "next_key")
                              = q["pagination.key"]}
         IN  IF from = {} THEN Failed("HTTP Error 400: Bad Request")
             ELSE srv[(CHOOSE j \in from : TRUE) + 1]

\* The items of the pages before page j, of the sizes given.
RECURSIVE Before(_, _)
Before(sizes, j) == IF j = 1 THEN 0 ELSE Before(sizes, j - 1) + sizes[j - 1]

\* The chain of n pages of the given sizes, holding items in list order,
\* whose request failAt fails (0: none fails).
Chain(n, sizes, lastKind, failAt, items) ==
    [j \in 1..n |->
        IF j = failAt THEN Failed("timed out")
        ELSE Ok(PageBody(SubSeq(items, Before(sizes, j) + 1,
                                Before(sizes, j) + sizes[j]),
                         j, n, lastKind))]

(***************************************************************************)
(* paginate_channels                                                       *)
(***************************************************************************)
\* The query of the next request.
Query == IF Truthy(next_key_b64)
         THEN [kk \in {"pagination.limit", "pagination.key"} |->
                  IF kk = "pagination.limit" THEN Str(Limit) ELSE next_key_b64]
         ELSE [kk \in {"pagination.limit"} |-> Str(Limit)]

\* A handler that starts the result over with the error stub.
ErrorStub_Reset(res, symbol, msg) ==
    [s \in {symbol} |-> [e \in {"__error__"} |-> [message |-> msg]]]

\* aggregate_all's handler of an exception out of map_channels: the error
\* stub under the endpoint's symbol.
ErrorStub(res, symbol, msg) ==
    Put(res, symbol,
        Put(GetDict(res, symbol), "__error__", [message |-> msg]))

\* The endpoint loop moves on: the next endpoint, or the return.
NextEndpoint ==
    /\ ep' = ep + 1
    /\ pc' = IF ep + 1 > NumEndpoints THEN "done" ELSE "endpoint"

\* A fetch that keeps only the items of the last page.
Extend_Overwrite(list, cs) == cs

\* channels.extend(cs)
Extend(list, cs) == list \o cs

\* One iteration of the while loop of paginate_channels.  A failed request
\* raises through map_channels into the handler of aggregate_all; the last
\* page returns the list to map_channels, which starts its loop.
PageRequest ==
    /\ pc = "fetch"
    /\ LET q    == Query
           data == Respond(server, q)
       IN  /\ sent' = Append(sent, q)
           /\ IF ~data.ok
              THEN /\ result' = ErrorStub(result, local_symbol, data.error)
                   /\ NextEndpoint
                   /\ channels' = <<>>
                   /\ next_key_b64' = Null
                   /\ UNCHANGED <<all_channels, i, out>>
              ELSE LET cs == GetList(data.body, "channels")
                       pagination == GetDict(data.body, "pagination")
                       next == Get(pagination, "next_key")
                   IN  /\ channels' = Extend(channels, cs)
                       /\ next_key_b64' = next
                       /\ IF ~Truthy(next)
                          THEN /\ all_channels' = channels'
                               /\ i' = 1
                               /\ out' = <<>>
                               /\ pc' = "resolve"
                          ELSE /\ pc' = "fetch"
                               /\ UNCHANGED <<all_channels, i, out>>
                       /\ UNCHANGED <<result, ep>>
    /\ UNCHANGED <<chain_id_to_symbol, server, lookups, rows, r, reported, served,
                   hopless>>

(***************************************************************************)
(* get_local_chain_id, build_chain_id_symbol_map                           *)
(***************************************************************************)
ChainIds == {"cosmoshub-4", "osmosis-1"}

\* In reported: get_local_chain_id was not yet called for the endpoint.
Unasked == "<unasked>"

\* What the node_info resource can answer.
NodeInfoExchanges ==
    {Failed("timed out"), Ok(EmptyDict)}
        \cup {Ok([default_node_info |-> [network |-> c]]) : c \in ChainIds \cup {""}}

\* What the latest-block resource can answer.
LatestBlockExchanges ==
    {Failed("timed out"), Ok(EmptyDict)}
        \cup {Ok([block |-> [header |-> [chain_id |-> c]]]) : c \in ChainIds}

\* node_info first; the latest block only when node_info raised or named
\* no network.
get_local_chain_id(node_info, latest) ==
    LET first  == IF node_info.ok
                  THEN Get(GetDict(node_info.body, "default_node_info"), "network")
                  ELSE Null
        second == IF latest.ok
                  THEN Get(GetDict(GetDict(latest.body, "block"), "header"), "chain_id")
                  ELSE Null
    IN  IF Truthy(first) THEN first
        ELSE IF Truthy(second) THEN second
        ELSE Null

\* The body of the loop of build_chain_id_symbol_map.
MapEntry(mapping, symbol, chain_id) ==
    IF Truthy(chain_id) THEN Put(mapping, chain_id, symbol) ELSE mapping

\* One iteration of the loop of build_chain_id_symbol_map; after the last,
\* aggregate_all creates the empty result and enters its endpoint loop.
ResolveIdentity ==
    /\ pc = "ident"
    /\ \E node_info \in NodeInfoExchanges, latest \in LatestBlockExchanges :
          LET chain_id == get_local_chain_id(node_info, latest)
          IN  /\ chain_id_to_symbol' = MapEntry(chain_id_to_symbol, local_symbol, chain_id)
              /\ reported' = [reported EXCEPT ![ep] = chain_id]
    /\ IF ep = NumEndpoints
       THEN ep' = 1 /\ pc' = "endpoint"
       ELSE ep' = ep + 1 /\ pc' = "ident"
    /\ UNCHANGED <<result, server, next_key_b64, channels, sent, all_channels,
                   i, out, lookups, rows, r, served, hopless>>

(***************************************************************************)
(* map_channels                                                            *)
(***************************************************************************)
\* What the channel-detail resource can answer.
ChannelExchanges ==
    {Failed(m) : m \in ErrorTexts}
        \cup {Ok([channel |-> [state |-> "STATE_INIT",
                               counterparty |-> [port_id |-> "transfer"]]]),
              Ok([channel |-> [state |-> "STATE_INIT",
                               counterparty |-> [port_id |-> "transfer"],
                               connection_hops |-> <<>>]]),
              Ok([channel |-> [state |-> "STATE_OPEN",
                               counterparty |-> [channel_id |-> "channel-99",
                                                 port_id |-> "transfer"],
                               connection_hops |-> <<"connection-0", "connection-7">>]])}

\* What the connection resource can answer.
ConnectionExchanges ==
    {Failed(m) : m \in ErrorTexts}
        \cup {Ok([connection |-> [client_id |-> "07-tendermint-3"]])}

\* What the client-state resource can answer.
ClientExchanges ==
    {Failed(m) : m \in ErrorTexts}
        \cup {Ok(EmptyDict)}
        \cup {Ok([client_state |-> [chain_id |-> c]]) : c \in ChainIds}
        \cup {Ok([client_state |-> [value |-> [chain_id |-> c]]]) : c \in ChainIds}

extract_chain_id_from_client_state(client_state_obj) ==
    LET cs       == GetDict(client_state_obj, "client_state")
        chain_id == Get(cs, "chain_id")
    IN  IF Truthy(chain_id) THEN chain_id
        ELSE IF "value" \in DOMAIN cs THEN Get(cs["value"], "chain_id")
        ELSE Null

\* An exchange as logged: the request and what came back.
Exchange(kind, id, response) == [kind |-> kind, id |-> id, response |-> response]

\* An error record that also carries the state of the channel.
ErrorRecord_WithState(ch, msg) ==
    [channel_id |-> Get(ch, "channel_id"), port_id |-> Get(ch, "port_id"),
     state |-> Get(ch, "state"), error |-> msg]

\* The record of the except branch.
ErrorRecord(ch, msg) ==
    [channel_id |-> Get(ch, "channel_id"), port_id |-> Get(ch, "port_id"),
     error |-> msg]

\* The rest of the loop body for a channel whose detail named connection
\* hops: the first hop's connection, its client's state, the record.
Resolution(ch, detail, conn, client) ==
    LET channel   == GetDict(detail.body, "channel")
        cp        == GetDict(channel, "counterparty")
        hops      == GetList(channel, "connection_hops")
        x1        == Exchange("channel", Get(ch, "channel_id"), detail)
        x2        == Exchange("connection", hops[1], conn)
        client_id == Get(GetDict(conn.body, "connection"), "client_id")
        x3        == Exchange("client_state", client_id, client)
    IN  IF ~conn.ok
        THEN [records |-> <<ErrorRecord(ch, conn.error)>>, exchanges |-> <<x1, x2>>]
        ELSE IF ~client.ok
        THEN [records |-> <<ErrorRecord(ch, client.error)>>,
              exchanges |-> <<x1, x2, x3>>]
        ELSE [records |->
                 <<[channel_id |-> Get(ch, "channel_id"),
                    port_id |-> Get(ch, "port_id"),
                    counterparty_channel_id |-> Get(cp, "channel_id"),
                    counterparty_port_id |-> Get(cp, "port_id"),
                    connection_id |-> hops[1],
                    client_id |-> client_id,
                    counterparty_chain_id |->
                        extract_chain_id_from_client_state(client.body),
                    state |-> Get(ch, "state")]>>,
              exchanges |-> <<x1, x2, x3>>]

\* A loop body without the guard on the hops: hops[0] raises IndexError on
\* an empty list, and the except branch records it.
Iteration_NoHopGuard(ch, detail, conn, client) ==
    LET x1   == Exchange("channel", Get(ch, "channel_id"), detail)
        hops == GetList(GetDict(detail.body, "channel"), "connection_hops")
    IN  IF Truthy(port_filter) /\ Get(ch, "port_id") # port_filter
        THEN [records |-> <<>>, exchanges |-> <<>>]
        ELSE IF Truthy(state_filter) /\ Get(ch, "state") # state_filter
        THEN [records |-> <<>>, exchanges |-> <<>>]
        ELSE IF ~detail.ok
        THEN [records |-> <<ErrorRecord(ch, detail.error)>>, exchanges |-> <<x1>>]
        ELSE IF Len(hops) = 0
        THEN [records |-> <<ErrorRecord(ch, "list index out of range")>>,
              exchanges |-> <<x1>>]
        ELSE Resolution(ch, detail, conn, client)

\* The body of the for loop of map_channels on channel ch, given what the
\* three resources answer when asked: the records appended to out and the
\* exchanges made, in order.
Iteration(ch, detail, conn, client) ==
    LET x1   == Exchange("channel", Get(ch, "channel_id"), detail)
        hops == GetList(GetDict(detail.body, "channel"), "connection_hops")
    IN  IF Truthy(port_filter) /\ Get(ch, "port_id") # port_filter
        THEN [records |-> <<>>, exchanges |-> <<>>]
        ELSE IF Truthy(state_filter) /\ Get(ch, "state") # state_filter
        THEN [records |-> <<>>, exchanges |-> <<>>]
        ELSE IF ~detail.ok
        THEN [records |-> <<ErrorRecord(ch, detail.error)>>, exchanges |-> <<x1>>]
        ELSE IF Len(hops) = 0
        THEN [records |-> <<>>, exchanges |-> <<x1>>]
        ELSE Resolution(ch, detail, conn, client)

\* The exchanges of an iteration whose channel detail came back without
\* connection hops.
NoHops(exchanges) ==
    /\ Len(exchanges) >= 1
    /\ exchanges[1].response.ok
    /\ Len(GetList(GetDict(exchanges[1].response.body, "channel"),
                   "connection_hops")) = 0

\* One iteration of the for loop of map_channels.
ProcessChannel ==
    /\ pc = "resolve"
    /\ i <= Len(all_channels)
    /\ \E did \in {Iteration(all_channels[i], detail, conn, client) :
                        detail \in ChannelExchanges, conn \in ConnectionExchanges,
                        client \in ClientExchanges} :
          /\ out' = out \o did.records
          /\ lookups' = did.exchanges
          /\ hopless' = IF NoHops(did.exchanges)
                        THEN hopless \cup {Get(all_channels[i], "channel_id")}
                        ELSE hopless
    /\ i' = i + 1
    /\ UNCHANGED <<pc, ep, chain_id_to_symbol, result, server, next_key_b64,
                   channels, sent, all_channels, rows, r, reported, served>>

\* d.setdefault(k, {}) on the result.
SetDefault(res, symbol) ==
    IF symbol \in DOMAIN res THEN res ELSE Put(res, symbol, EmptyDict)

\* map_channels returns out; aggregate_all takes it as rows, makes sure the
\* endpoint has its local map and enters the loop over the rows.
ReturnRows ==
    /\ pc = "resolve"
    /\ i > Len(all_channels)
    /\ rows' = out
    /\ r' = 1
    /\ result' = SetDefault(result, local_symbol)
    /\ pc' = "aggregate"
    \* the frames of paginate_channels and map_channels are gone
    /\ server' = <<>> /\ next_key_b64' = Null /\ channels' = <<>> /\ sent' = <<>>
    /\ all_channels' = <<>> /\ i' = 0 /\ out' = <<>> /\ lookups' = <<>>
    /\ UNCHANGED <<ep, chain_id_to_symbol, reported, served, hopless>>

(***************************************************************************)
(* aggregate_all: the loop over the rows of one endpoint                   *)
(***************************************************************************)
\* Last write wins: every candidate replaces the stored entry.
should_replace_Always(existing, candidate_state, candidate_src_num) == TRUE

\* The states are not looked at: the source numbers alone decide.
should_replace_NumberOnly(existing, candidate_state, candidate_src_num) ==
    IF DOMAIN existing = {} THEN TRUE
    ELSE LET existing_num == GetNum(existing, "source channel")
         IN  IF existing_num = NoNum THEN TRUE
             ELSE IF candidate_src_num = NoNum THEN FALSE
             ELSE candidate_src_num[1] < existing_num[1]

\* The comparison of the tie-break is the wrong way round.
should_replace_Larger(existing, candidate_state, candidate_src_num) ==
    IF DOMAIN existing = {} THEN TRUE
    ELSE LET stored         == Get(existing, "state")
             existing_state == IF Truthy(stored) THEN stored ELSE ""
             existing_num   == GetNum(existing, "source channel")
         IN  IF existing_state # "OPEN" /\ candidate_state = "OPEN" THEN TRUE
             ELSE IF existing_state = "OPEN" /\ candidate_state # "OPEN" THEN FALSE
             ELSE IF existing_num = NoNum THEN TRUE
             ELSE IF candidate_src_num = NoNum THEN FALSE
             ELSE candidate_src_num[1] > existing_num[1]

should_replace(existing, candidate_state, candidate_src_num) ==
    IF DOMAIN existing = {} THEN TRUE
    ELSE LET stored         == Get(existing, "state")
             existing_state == IF Truthy(stored) THEN stored ELSE ""
             existing_num   == GetNum(existing, "source channel")
         IN  IF existing_state # "OPEN" /\ candidate_state = "OPEN" THEN TRUE
             ELSE IF existing_state = "OPEN" /\ candidate_state # "OPEN" THEN FALSE
             ELSE IF existing_num = NoNum THEN TRUE
             ELSE IF candidate_src_num = NoNum THEN FALSE
             ELSE candidate_src_num[1] < existing_num[1]

\* The leaf built for a row.
Candidate(src_num, dst_num, state_norm) ==
    [kk \in {"source channel", "destiation channel", "state"} |->
        IF kk = "source channel" THEN src_num
        ELSE IF kk = "destiation channel" THEN dst_num
        ELSE state_norm]

\* A chain identity no endpoint reported is filed under "UNKNOWN".
CounterpartyKey_NoRawId(mapping, cp_chain_id) ==
    IF cp_chain_id \in DOMAIN mapping THEN mapping[cp_chain_id] ELSE "UNKNOWN"

\* chain_id_to_symbol.get(cp_chain_id, cp_chain_id or "UNKNOWN")
CounterpartyKey(mapping, cp_chain_id) ==
    IF cp_chain_id \in DOMAIN mapping THEN mapping[cp_chain_id]
    ELSE IF Truthy(cp_chain_id) THEN cp_chain_id
    ELSE "UNKNOWN"

\* normalize_state(r.get("state")) or "UNKNOWN"
StateNorm(row) ==
    LET n == normalize_state(Get(row, "state"))
    IN  IF Truthy(n) THEN n ELSE "UNKNOWN"

\* if r.get("error"): continue / if r.get("port_id") != "transfer": continue
Skipped(row) == Truthy(Get(row, "error")) \/ Get(row, "port_id") # "transfer"

\* The body of the loop over the rows, on the local map of the endpoint.
Aggregate(local_map, mapping, row) ==
    IF Skipped(row) THEN local_map
    ELSE LET cp_key     == CounterpartyKey(mapping, Get(row, "counterparty_chain_id"))
             src_num    == parse_channel_number(Get(row, "channel_id"))
             dst_num    == parse_channel_number(Get(row, "counterparty_channel_id"))
             state_norm == StateNorm(row)
             existing   == GetDict(local_map, cp_key)
         IN  IF should_replace(existing, state_norm, src_num)
             THEN Put(local_map, cp_key, Candidate(src_num, dst_num, state_norm))
             ELSE local_map

\* One iteration of the loop over the rows.
AggregateRow ==
    /\ pc = "aggregate"
    /\ r <= Len(rows)
    /\ result' = Put(result, local_symbol,
                     Aggregate(result[local_symbol], chain_id_to_symbol, rows[r]))
    /\ r' = r + 1
    /\ UNCHANGED <<pc, ep, chain_id_to_symbol, server, next_key_b64, channels,
                   sent, all_channels, i, out, lookups, rows, reported, served,
                   hopless>>

\* The rows are exhausted: the endpoint loop moves on.
EndEndpoint ==
    /\ pc = "aggregate"
    /\ r > Len(rows)
    /\ NextEndpoint
    /\ rows' = <<>> /\ r' = 0 /\ hopless' = {}
    /\ UNCHANGED <<chain_id_to_symbol, result, server, next_key_b64, channels,
                   sent, all_channels, i, out, lookups, reported, served>>

(***************************************************************************)
(* aggregate_all: the loop over the endpoints                              *)
(***************************************************************************)
\* The summaries a channel list can hold.
Summaries == {<<"transfer", "STATE_OPEN">>, <<"transfer", "OPEN">>,
              <<"icahost", "STATE_OPEN">>}

\* The channel lists of k items.
Lists(k) == {[n \in 1..k |-> RawChannel(n, what[n][1], what[n][2])] :
                what \in [1..k -> Summaries]}

\* The channel-list resources an endpoint can have when the run may still
\* list budget channels: the list in one page, or split in two.
EndpointChains(budget) ==
    UNION {{Chain(1, <<k>>, "empty", failAt, items) :
               failAt \in 0..1, items \in Lists(k)}
           \cup UNION {{Chain(2, <<k1, k - k1>>, "null", failAt, items) :
                           failAt \in {0, 2}, items \in Lists(k)} :
                       k1 \in 1..(k - 1)} : k \in 0..budget}

\* The number of items of a chain.
RECURSIVE Listed(_)
Listed(srv) ==
    IF Len(srv) = 0 THEN 0
    ELSE Listed(SubSeq(srv, 1, Len(srv) - 1))
            + (IF srv[Len(srv)].ok
               THEN Len(GetList(srv[Len(srv)].body, "channels")) ELSE 0)

\* The head of the endpoint loop: map_channels is called and starts
\* paginate_channels on the endpoint's channel-list resource.
BeginEndpoint ==
    /\ pc = "endpoint"
    /\ server' \in EndpointChains(MaxChannels - served)
    /\ served' = served + Listed(server')
    /\ channels' = <<>>
    /\ next_key_b64' = Null
    /\ sent' = <<>>
    /\ pc' = "fetch"
    /\ UNCHANGED <<ep, chain_id_to_symbol, result, all_channels, i, out, lookups,
                   rows, r, reported, hopless>>

Init ==
    /\ pc = "ident"
    /\ ep = 1
    /\ chain_id_to_symbol = EmptyDict
    /\ result = EmptyDict
    /\ server = <<>>
    /\ next_key_b64 = Null
    /\ channels = <<>>
    /\ sent = <<>>
    /\ all_channels = <<>>
    /\ i = 0
    /\ out = <<>>
    /\ lookups = <<>>
    /\ rows = <<>>
    /\ r = 0
    /\ reported = [s \in 1..NumEndpoints |-> Unasked]
    /\ served = 0
    /\ hopless = {}

Next ==
    \/ ResolveIdentity
    \/ BeginEndpoint
    \/ PageRequest
    \/ ProcessChannel
    \/ ReturnRows
    \/ AggregateRow
    \/ EndEndpoint

Spec == Init /\ [][Next]_vars

(***************************************************************************)
(* The paginated fetch on its own: one call of paginate_channels against   *)
(* any chain of at most MaxPages pages of at most MaxPageSize items.       *)
(***************************************************************************)
PageChains ==
    UNION {{Chain(n, sizes, lastKind, failAt,
                  [k \in 1..Before(sizes, n + 1) |->
                      RawChannel(k, "transfer", "STATE_OPEN")]) :
               sizes \in [1..n -> 0..MaxPageSize],
               lastKind \in LastKinds,
               failAt \in 0..n} : n \in 1..MaxPages}

InitPage ==
    /\ pc = "fetch"
    /\ ep = 1
    /\ chain_id_to_symbol = EmptyDict
    /\ result = EmptyDict
    /\ server \in PageChains
    /\ next_key_b64 = Null
    /\ channels = <<>>
    /\ sent = <<>>
    /\ all_channels = <<>>
    /\ i = 0
    /\ out = <<>>
    /\ lookups = <<>>
    /\ rows = <<>>
    /\ r = 0
    /\ reported = [s \in 1..NumEndpoints |-> Null]
    /\ served = 0
    /\ hopless = {}

NextPage == PageRequest

SpecPage == InitPage /\ [][NextPage]_vars /\ WF_vars(NextPage)

(***************************************************************************)
(* C8: the paginated fetch                                                 *)
(***************************************************************************)
\* The continuation cursor of page j of the chain.
CursorOf(srv, j) == Get(GetDict(srv[j].body, "pagination"), "next_key")

\* The first request of a walk along the chain that fails or whose
\* response carries no cursor (absent, null or empty).
StopAt(srv) ==
    CHOOSE j \in 1..Len(srv) :
        /\ ~srv[j].ok \/ ~Truthy(CursorOf(srv, j))
        /\ \A k \in 1..(j - 1) : srv[k].ok /\ Truthy(CursorOf(srv, k))

RECURSIVE PagesConcat(_, _)
\* The items of pages 1..j, in order.
PagesConcat(srv, j) ==
    IF j = 0 THEN <<>>
    ELSE PagesConcat(srv, j - 1) \o GetList(srv[j].body, "channels")

RECURSIVE PagesTotal(_, _)
\* The sum of the sizes of pages 1..j.
PagesTotal(srv, j) ==
    IF j = 0 THEN 0
    ELSE PagesTotal(srv, j - 1) + Len(GetList(srv[j].body, "channels"))

\* Every request carries the limit; the first carries no cursor and each
\* later one the cursor of the response before it, as it came.
C8_Requests ==
    \A k \in 1..Len(sent) :
        /\ sent[k]["pagination.limit"] = "200"
        /\ IF k = 1 THEN DOMAIN sent[k] = {"pagination.limit"}
           ELSE /\ DOMAIN sent[k] = {"pagination.limit", "pagination.key"}
                /\ sent[k]["pagination.key"] = CursorOf(server, k - 1)

\* The fetch is over exactly when the stopping request has been issued.
C8_Halts ==
    /\ Len(sent) <= StopAt(server)
    /\ pc # "fetch" <=> Len(sent) = StopAt(server)

\* A fetch none of whose requests failed returns the concatenation.
C8_Returned ==
    (pc # "fetch" /\ server[StopAt(server)].ok) =>
        /\ pc = "resolve"
        /\ all_channels = PagesConcat(server, StopAt(server))
        /\ Len(all_channels) = PagesTotal(server, StopAt(server))

\* A fetch one of whose requests failed returns nothing: the exception
\* reaches aggregate_all.
C8_Raised ==
    (pc # "fetch" /\ ~server[StopAt(server)].ok) =>
        /\ pc \in {"endpoint", "done"}
        /\ all_channels = <<>>
        /\ result = [s \in {Symbols[1]} |->
                        [e \in {"__error__"} |->
                            [message |-> server[StopAt(server)].error]]]

\* C8: against a finite chain of pages paginate_channels terminates, stops
\* at the first response without a cursor, sends each cursor on as it came
\* and returns the pages' items in order, as many as the pages hold; a
\* failed request fails the whole fetch and no list is returned.
C8_PaginatedFetch ==
    /\ [](C8_Requests /\ C8_Halts /\ C8_Returned /\ C8_Raised)
    /\ <>(pc # "fetch")

\* A fetch of three pages that returned four or more items.
C8_Witness ==
    /\ pc = "resolve"
    /\ Len(sent) = 3
    /\ Len(all_channels) >= 4

(***************************************************************************)
(* The aggregation on its own: the loop over the rows of the first         *)
(* endpoint, for every list of at most MaxRows resolved transfer rows.     *)
(***************************************************************************)
\* Resolved records as map_channels builds them: four channel ids (two
\* with no number), an OPEN and a non-OPEN state, two counterparty channels
\* and two counterparty chains.
ConflictRows ==
    {[channel_id |-> c,
      port_id |-> "transfer",
      counterparty_channel_id |-> d[1],
      counterparty_port_id |-> "transfer",
      connection_id |-> "connection-0",
      client_id |-> "07-tendermint-3",
      counterparty_chain_id |-> d[2],
      state |-> st] :
        c \in {"channel-3", "channel-8", "channel-abc", "channel-xyz"},
        st \in {"STATE_OPEN", "STATE_INIT"},
        d \in {<<"channel-1", "osmosis-1">>, <<"channel-2", "osmosis-1">>,
               <<"channel-1", "foo-7">>}}

InitConflict ==
    /\ pc = "aggregate"
    /\ ep = 1
    /\ chain_id_to_symbol = MapEntry(EmptyDict, Symbols[2], "osmosis-1")
    /\ reported = [s \in 1..NumEndpoints |-> IF s = 2 THEN "osmosis-1" ELSE Null]
    /\ result = SetDefault(EmptyDict, Symbols[1])
    /\ rows \in UNION {[1..n -> ConflictRows] : n \in 1..MaxRows}
    \* a channel list names every channel once
    /\ \A j, k \in 1..Len(rows) : j # k => rows[j].channel_id # rows[k].channel_id
    /\ r = 1
    /\ served = Len(rows)
    /\ server = <<>>
    /\ next_key_b64 = Null
    /\ channels = <<>>
    /\ sent = <<>>
    /\ all_channels = <<>>
    /\ i = 0
    /\ out = <<>>
    /\ lookups = <<>>
    /\ hopless = {}

NextConflict == AggregateRow \/ EndEndpoint

SpecConflict == InitConflict /\ [][NextConflict]_vars

(***************************************************************************)
(* What the claims about the aggregation speak of                          *)
(***************************************************************************)
\* The row reaches should_replace.
IsCandidate(row) == ~Skipped(row)

\* The pair's counterparty key, normalized source number and leaf of a row.
KeyOf(row) == CounterpartyKey(chain_id_to_symbol, Get(row, "counterparty_chain_id"))

SrcOf(row) == parse_channel_number(Get(row, "channel_id"))

LeafOf(row) ==
    Candidate(SrcOf(row), parse_channel_number(Get(row, "counterparty_channel_id")),
              StateNorm(row))

IsOpen(leaf) == leaf["state"] = "OPEN"

\* The rows are exhausted and the endpoint's local map is final.
RowsDone == pc = "aggregate" /\ r > Len(rows)

\* A step of the loop over the rows.
RowStep == pc = "aggregate" /\ r <= Len(rows) /\ r' = r + 1

\* The candidates for key K among the first n rows.
CandidatesFor(K, n) ==
    {k \in 1..n : IsCandidate(rows[k]) /\ KeyOf(rows[k]) = K}

RECURSIVE FoldRows(_)
\* The local map the loop builds from the empty map on the rows rs.
FoldRows(rs) ==
    IF Len(rs) = 0 THEN EmptyDict
    ELSE Aggregate(FoldRows(SubSeq(rs, 1, Len(rs) - 1)), chain_id_to_symbol,
                   rs[Len(rs)])

\* The local maps the loop builds on the rows in every order.
Reorderings ==
    {FoldRows([k \in 1..Len(rows) |-> rows[p[k]]]) :
        p \in Permutations(1..Len(rows))}

(***************************************************************************)
(* C1: order independence of the conflict resolution                       *)
(***************************************************************************)
\* C1, as claimed: the entry stored for every pair is the same for every
\* order in which the rows are processed.
C1_OrderIndependent ==
    RowsDone => \A other \in Reorderings : other = result[local_symbol]

\* The candidates for K that tie with the stored entry: the same OPEN-ness
\* and the same normalized source number (both none counts as the same).
TiedWith(K, leaf) ==
    {k \in CandidatesFor(K, Len(rows)) :
        /\ IsOpen(LeafOf(rows[k])) = IsOpen(leaf)
        /\ SrcOf(rows[k]) = leaf["source channel"]}

\* C1, amended: for every order the stored entry has the same OPEN-ness
\* and the same source channel number, and it is the same entry whenever
\* the candidates that tie on both are the same entry.
C1_OrderIndependentUpToTies ==
    RowsDone =>
        \A other \in Reorderings :
            LET mine == result[local_symbol]
            IN  /\ DOMAIN other = DOMAIN mine
                /\ \A K \in DOMAIN mine :
                      /\ IsOpen(other[K]) = IsOpen(mine[K])
                      /\ other[K]["source channel"] = mine[K]["source channel"]
                      /\ (\A k \in TiedWith(K, mine[K]) : LeafOf(rows[k]) = mine[K])
                            => other[K] = mine[K]

\* The spec's example: INIT with the smaller number first, then OPEN with
\* the larger one; the OPEN entry is stored.
C1_Witness ==
    /\ RowsDone
    /\ Len(rows) >= 2
    /\ \E j, k \in 1..Len(rows) :
          /\ j < k
          /\ KeyOf(rows[j]) = KeyOf(rows[k])
          /\ ~IsOpen(LeafOf(rows[j])) /\ SrcOf(rows[j]) = Some(3)
          /\ IsOpen(LeafOf(rows[k])) /\ SrcOf(rows[k]) = Some(8)
          /\ result[local_symbol][KeyOf(rows[k])] = LeafOf(rows[k])

(***************************************************************************)
(* C2: OPEN wins and is never downgraded                                   *)
(***************************************************************************)
\* After every prefix of the rows the stored state of a pair is OPEN
\* exactly when one of the pair's candidates so far was OPEN.
C2_OpenIffSeen ==
    pc = "aggregate" =>
        \A K \in DOMAIN result[local_symbol] :
            IsOpen(result[local_symbol][K])
                <=> \E k \in CandidatesFor(K, r - 1) : IsOpen(LeafOf(rows[k]))

\* A non-OPEN candidate leaves a stored OPEN entry alone, and an OPEN
\* candidate replaces a stored non-OPEN entry.
C2_Step ==
    (RowStep /\ IsCandidate(rows[r])) =>
        LET K      == KeyOf(rows[r])
            before == GetDict(result[local_symbol], K)
            after  == result'[local_symbol][K]
        IN  /\ (DOMAIN before # {} /\ IsOpen(before) /\ ~IsOpen(LeafOf(rows[r])))
                  => after = before
            /\ (DOMAIN before # {} /\ ~IsOpen(before) /\ IsOpen(LeafOf(rows[r])))
                  => after = LeafOf(rows[r])

\* C2: OPEN always wins and is never downgraded, so the stored state is
\* OPEN if and only if a candidate of the pair was OPEN.
C2_OpenWins == [](C2_OpenIffSeen) /\ [][C2_Step]_vars

\* An OPEN entry with number 8 was stored, a non-OPEN candidate with the
\* smaller number 3 came later, and the OPEN entry is still there.
C2_Witness ==
    /\ RowsDone
    /\ \E j, k \in 1..Len(rows) :
          /\ j < k
          /\ KeyOf(rows[j]) = KeyOf(rows[k])
          /\ IsOpen(LeafOf(rows[j])) /\ SrcOf(rows[j]) = Some(8)
          /\ ~IsOpen(LeafOf(rows[k])) /\ SrcOf(rows[k]) = Some(3)
          /\ result[local_symbol][KeyOf(rows[j])] = LeafOf(rows[j])

(***************************************************************************)
(* C3: the tie-break by source channel number                              *)
(***************************************************************************)
\* The source numbers of the candidates so far for K that have the
\* OPEN-ness of the stored entry.
WinningNumbers(K) ==
    {SrcOf(rows[k])[1] :
        k \in {j \in CandidatesFor(K, r - 1) :
                  /\ IsOpen(LeafOf(rows[j])) = IsOpen(result[local_symbol][K])
                  /\ SrcOf(rows[j]) # NoNum}}

\* After every prefix of the rows the stored entry has the least source
\* number of the candidates of the winning OPEN-ness, if any has one.
C3_StoredIsMinimum ==
    pc = "aggregate" =>
        \A K \in DOMAIN result[local_symbol] :
            WinningNumbers(K) # {} =>
                /\ result[local_symbol][K]["source channel"] # NoNum
                /\ \A n \in WinningNumbers(K) :
                      result[local_symbol][K]["source channel"][1] <= n
                /\ result[local_symbol][K]["source channel"][1] \in WinningNumbers(K)

\* With the same OPEN-ness on both sides the smaller number is kept, and an
\* entry without a number loses to one that has a number.
C3_Step ==
    (RowStep /\ IsCandidate(rows[r])) =>
        LET K      == KeyOf(rows[r])
            before == GetDict(result[local_symbol], K)
            after  == result'[local_symbol][K]
            mine   == LeafOf(rows[r])
            bn     == GetNum(before, "source channel")
            cn     == SrcOf(rows[r])
        IN  (DOMAIN before # {} /\ IsOpen(before) = IsOpen(mine)) =>
                /\ (bn # NoNum /\ cn # NoNum)
                      => after = IF cn[1] < bn[1] THEN mine ELSE before
                /\ (bn # NoNum /\ cn = NoNum) => after = before
                /\ (bn = NoNum /\ cn # NoNum) => after = mine

\* C3: between entries of the same OPEN-ness the smaller source channel
\* number is kept and a missing number loses to any number, so the stored
\* entry has the minimum number of the winning OPEN-ness.
C3_TieBreak == [](C3_StoredIsMinimum) /\ [][C3_Step]_vars

\* Three candidates of one pair and one OPEN-ness came as 8, no number, 3,
\* and the entry with 3 is stored.
C3_Witness ==
    /\ RowsDone
    /\ Len(rows) = 3
    /\ \A k \in 1..3 : KeyOf(rows[k]) = KeyOf(rows[1])
                         /\ IsOpen(LeafOf(rows[k])) = IsOpen(LeafOf(rows[1]))
    /\ SrcOf(rows[1]) = Some(8) /\ SrcOf(rows[2]) = NoNum /\ SrcOf(rows[3]) = Some(3)
    /\ result[local_symbol][KeyOf(rows[1])] = LeafOf(rows[3])

(***************************************************************************)
(* C4: a failed endpoint is isolated                                       *)
(***************************************************************************)
\* The stub aggregate_all files for an endpoint whose fetch raised msg.
StubOf(msg) == [e \in {"__error__"} |-> [message |-> msg]]

\* A step changes the mapping of no endpoint but the current one.
C4_Frame ==
    \A s \in 1..NumEndpoints :
        (Symbols[s] \in DOMAIN result /\ s # ep) =>
            /\ Symbols[s] \in DOMAIN result'
            /\ result'[Symbols[s]] = result[Symbols[s]]

\* When a request of the channel fetch fails, the endpoint's mapping is
\* exactly the stub with the text of the exception, and the loop moves on
\* to the next endpoint.
C4_Stub ==
    (pc = "fetch" /\ ~Respond(server, sent'[Len(sent')]).ok) =>
        /\ result'[Symbols[ep]] = StubOf(Respond(server, sent'[Len(sent')]).error)
        /\ ep' = ep + 1
        /\ pc' = IF ep = NumEndpoints THEN "done" ELSE "endpoint"

\* The mapping of an endpoint whose fetch did not fail is what its own rows
\* give from the empty map, whatever happened to the other endpoints.
C4_OwnRows == RowsDone => result[local_symbol] = FoldRows(rows)

\* Every endpoint has its mapping when aggregate_all returns.
C4_AllEndpoints ==
    pc = "done" => DOMAIN result = {Symbols[s] : s \in 1..NumEndpoints}

\* C4: when the channel fetch of an endpoint fails as a whole aggregate_all
\* goes on, files exactly the error stub under the endpoint's symbol and
\* leaves the mappings of the other endpoints as they are without the
\* failure.
C4_EndpointIsolation ==
    /\ [](C4_OwnRows /\ C4_AllEndpoints)
    /\ [][C4_Frame /\ C4_Stub]_vars

\* The first endpoint got an entry, the fetch of the second failed, and
\* the result holds the entry and the stub.
C4_Witness ==
    /\ pc = "done"
    /\ result[Symbols[2]] = StubOf("timed out")
    /\ \E K \in DOMAIN result[Symbols[1]] :
          K # "__error__" /\ IsOpen(result[Symbols[1]][K])

(***************************************************************************)
(* C5: error records and the aggregation                                   *)
(***************************************************************************)
\* C5, as claimed: a record that carries an error field, whatever the text,
\* neither creates nor replaces an entry of the aggregate.
C5_ErrorRecordsExcluded ==
    [][(RowStep /\ "error" \in DOMAIN rows[r]) => result' = result]_vars

(***************************************************************************)
(* C6: a failed lookup does not abort the batch                            *)
(***************************************************************************)
\* A step of the loop over the channels.
ChannelStep == pc = "resolve" /\ i <= Len(all_channels)

\* The exchanges that raised.
FailedIn(exchanges) == {k \in 1..Len(exchanges) : ~exchanges[k].response.ok}

\* What the exchanges of a channel say its records are: the stub of the
\* failure if one failed, the resolved record if all three were made, and
\* nothing otherwise.
RecordsOf(ch, exchanges) ==
    IF FailedIn(exchanges) # {}
    THEN <<[channel_id |-> ch.channel_id, port_id |-> ch.port_id,
            error |-> exchanges[Len(exchanges)].response.error]>>
    ELSE IF Len(exchanges) = 3
    THEN LET detail == GetDict(exchanges[1].response.body, "channel")
         IN  <<[channel_id |-> ch.channel_id,
                port_id |-> ch.port_id,
                counterparty_channel_id |->
                    Get(GetDict(detail, "counterparty"), "channel_id"),
                counterparty_port_id |->
                    Get(GetDict(detail, "counterparty"), "port_id"),
                connection_id |-> exchanges[2].id,
                client_id |-> exchanges[3].id,
                counterparty_chain_id |->
                    extract_chain_id_from_client_state(exchanges[3].response.body),
                state |-> ch.state]>>
    ELSE <<>>

\* Every iteration moves on to the next channel and appends what the
\* channel's own exchanges give, the records before it untouched; a failed
\* lookup is the last exchange of its iteration.
C6_Step ==
    ChannelStep =>
        /\ pc' = "resolve"
        /\ i' = i + 1
        /\ all_channels' = all_channels
        /\ out' = out \o RecordsOf(all_channels[i], lookups')
        /\ FailedIn(lookups') \subseteq {Len(lookups')}

\* After the last channel map_channels returns its records.
C6_Returns ==
    (pc = "resolve" /\ i > Len(all_channels)) => (pc' = "aggregate" /\ rows' = out)

\* C6: when a lookup fails for a channel map_channels appends a record of
\* channel_id, port_id and error only, processes the remaining channels in
\* order and returns; the records of the other channels are not affected.
C6_ChannelIsolation ==
    /\ [](pc = "resolve" => (i <= Len(all_channels) + 1 /\ Len(out) < i))
    /\ [][C6_Step /\ C6_Returns]_vars

\* The lookup of the first channel failed, the second channel was resolved
\* all the same, and map_channels is about to return both records.
C6_Witness ==
    /\ pc = "resolve"
    /\ i > Len(all_channels)
    /\ Len(out) = 2
    /\ DOMAIN out[1] = {"channel_id", "port_id", "error"}
    /\ out[1].channel_id = all_channels[1].channel_id
    /\ "error" \notin DOMAIN out[2]
    /\ out[2].channel_id = all_channels[2].channel_id

(***************************************************************************)
(* C7: a channel without connection hops                                   *)
(***************************************************************************)
\* Only the channel detail was asked for.
C7_NoFurtherRequest ==
    (pc = "resolve" /\ NoHops(lookups)) =>
        (Len(lookups) = 1 /\ lookups[1].kind = "channel")

\* No record of out or rows is one of a channel without hops.
C7_NoRecord ==
    \A id \in hopless :
        /\ \A k \in 1..Len(out) : out[k].channel_id # id
        /\ \A k \in 1..Len(rows) : rows[k].channel_id # id

\* No entry of the endpoint's mapping has the number of a channel without
\* hops as its source channel.
C7_NotAggregated ==
    (pc \in {"resolve", "aggregate"} /\ local_symbol \in DOMAIN result) =>
        \A id \in hopless :
            \A K \in DOMAIN result[local_symbol] \ {"__error__"} :
                result[local_symbol][K]["source channel"] # parse_channel_number(id)

\* The iteration of a channel without hops appends nothing.
C7_Step == (ChannelStep /\ NoHops(lookups')) => out' = out

\* C7: a channel whose detail names no connection hop gets no record, no
\* connection or client-state request, and no entry in the aggregate.
C7_HoplessDropped ==
    /\ [](C7_NoFurtherRequest /\ C7_NoRecord /\ C7_NotAggregated)
    /\ [][C7_Step]_vars

\* An endpoint listed a channel without hops and a resolved one; the rows
\* are aggregated and the mapping holds the resolved one only.
C7_Witness ==
    /\ RowsDone
    /\ hopless = {"channel-12"}
    /\ Len(rows) = 1
    /\ \E K \in DOMAIN result[local_symbol] :
          result[local_symbol][K]["source channel"] = Some(13)

(***************************************************************************)
(* C9: the counterparty key                                                *)
(***************************************************************************)
\* Once the endpoint loop runs every endpoint was asked for its identity
\* once, and the map holds exactly the identities that were reported, each
\* under a symbol that reported it.
C9_MapComplete ==
    pc # "ident" =>
        /\ \A s \in 1..NumEndpoints : reported[s] # Unasked
        /\ DOMAIN chain_id_to_symbol =
              {reported[s] : s \in {t \in 1..NumEndpoints : Truthy(reported[t])}}
        /\ \A c \in DOMAIN chain_id_to_symbol :
              \E s \in 1..NumEndpoints :
                  reported[s] = c /\ chain_id_to_symbol[c] = Symbols[s]

\* The map is built before any key is computed and not changed afterwards;
\* an endpoint is asked only once.
C9_Frozen ==
    /\ pc = "ident" => result' = result /\ rows' = rows
    /\ pc # "ident" => chain_id_to_symbol' = chain_id_to_symbol
    /\ \A s \in 1..NumEndpoints :
          reported[s] # Unasked => reported'[s] = reported[s]

\* The keys of the endpoint's mapping that a step created or changed.
Touched ==
    {K \in DOMAIN result'[local_symbol] :
        K \notin DOMAIN result[local_symbol]
            \/ result'[local_symbol][K] # result[local_symbol][K]}

\* A row that is stored is stored under the symbol of an endpoint that
\* reported the row's chain identity, else under the raw identity, else
\* under "UNKNOWN".
C9_Key ==
    (RowStep /\ result' # result) =>
        LET c   == Get(rows[r], "counterparty_chain_id")
            who == {s \in 1..NumEndpoints : Truthy(c) /\ reported[s] = c}
        IN  \E K \in Touched :
                /\ Touched = {K}
                /\ result'[local_symbol][K] = LeafOf(rows[r])
                /\ IF who # {} THEN \E s \in who : K = Symbols[s]
                   ELSE IF Truthy(c) THEN K = c
                   ELSE K = "UNKNOWN"

\* C9: an aggregated channel is filed under the configured symbol whose
\* endpoint reported its counterparty chain identity, else under the raw
\* identity, else under "UNKNOWN"; the chain-identity map is complete
\* before the first key is computed and frozen afterwards.
C9_CounterpartyKey == [](C9_MapComplete) /\ [][C9_Frozen /\ C9_Key]_vars

\* The first endpoint has an entry under the second endpoint's symbol and
\* one under a raw chain identity that no endpoint reported.
C9_Witness ==
    /\ RowsDone
    /\ ep = 1
    /\ reported = <<Null, "osmosis-1">>
    /\ DOMAIN result[local_symbol] = {Symbols[2], "cosmoshub-4"}

(***************************************************************************)
(* C10: the leaf of the aggregate                                          *)
(***************************************************************************)
\* The endpoint's only row is a resolved OPEN transfer channel whose
\* counterparty chain has a symbol.
OnlyOpenRow ==
    /\ RowsDone
    /\ Len(rows) = 1
    /\ "error" \notin DOMAIN rows[1]
    /\ rows[1].port_id = "transfer"
    /\ rows[1].state \in {"STATE_OPEN", "OPEN"}
    /\ rows[1].counterparty_chain_id \in DOMAIN chain_id_to_symbol

\* The row is the one of channel-N to channel-M.
Connects(N, M) ==
    /\ rows[1].channel_id = "channel-" \o Str(N)
    /\ rows[1].counterparty_channel_id = "channel-" \o Str(M)

\* The mapping that holds one leaf, of the three fields named.
OneLeaf(S, srcName, dstName, N, M) ==
    [K \in {S} |->
        [f \in {srcName, dstName, "state"} |->
            IF f = srcName THEN Some(N)
            ELSE IF f = dstName THEN Some(M)
            ELSE "OPEN"]]

\* C10, as claimed: an OPEN transfer channel channel-N to channel-M on a
\* chain of symbol S gives the leaf of source_channel N,
\* destination_channel M and state "OPEN" under S.
C10_LeafShape ==
    OnlyOpenRow =>
        \A N, M \in 0..99 :
            Connects(N, M) =>
                result[local_symbol] =
                    OneLeaf(chain_id_to_symbol[rows[1].counterparty_chain_id],
                            "source_channel", "destination_channel", N, M)

\* C10, amended: the leaf has the fields "source channel", "destiation
\* channel" and "state", the channel ids as integers and the state without
\* its STATE_ prefix.
C10_LeafShapeAsWritten ==
    OnlyOpenRow =>
        \A N, M \in 0..99 :
            Connects(N, M) =>
                result[local_symbol] =
                    OneLeaf(chain_id_to_symbol[rows[1].counterparty_chain_id],
                            "source channel", "destiation channel", N, M)

\* The spec's scenario: channel-12 to channel-99 on the chain of OSMO.
C10_Witness ==
    /\ OnlyOpenRow
    /\ Connects(12, 99)
    /\ rows[1].state = "STATE_OPEN"
    /\ chain_id_to_symbol[rows[1].counterparty_chain_id] = "OSMO"
    /\ result[local_symbol]["OSMO"]["state"] = "OPEN"

=============================================================================
